---- MODULE Spec2Model ----
(***************************************************************************)
(* RSI signal engine of Collablynetwork/RSI4h1m.                           *)
(*                                                                         *)
(* index.js schedules two periodic cycles with setInterval: a detection    *)
(* sweep (handleRSI, one task per symbol) and a target-check sweep         *)
(* (checkTargetAchieved).  Both are async functions: a task runs           *)
(* synchronously from one await to the next, and tasks interleave at the   *)
(* awaits.  setInterval does not wait for the previous run, so runs may    *)
(* overlap.                                                                *)
(*                                                                         *)
(* The repository holds two variants of the engine: src/strategy.js (the   *)
(* one index.js imports; averaging-down, 30 minute cooldown) and           *)
(* src/unnamed/part_000 (no averaging-down, 5 minute cooldown, bottom      *)
(* price tracked by the target check).  The variable "variant" selects     *)
(* which of the two is running.                                            *)
(*                                                                         *)
(* Units: a price is an integer number of 1e-8 quote units (the 8 decimal  *)
(* places of toFixed(8)); the clock counts minutes.                        *)
(***************************************************************************)
EXTENDS Integers, Sequences, FiniteSets, Bags, TLC

\* ------------------------------------------------------------------ bounds
Symbols == {"AUSDT"}

\* the prices a target check can see
Prices == {900, 1000, 1011, 1012}

\* the prices a detection sweep can see
SweepPrices == {900, 1000}

\* the instants at which the clock is sampled
MaxInstants == 3

\* handleRSI tasks awaiting their send at once
MaxHandlers == 1

\* checkTargetAchieved runs in flight at once
MaxChecks == 1

MaxRsiLen == 15

RsiPrices == {1, 2}

\* calculateBTCChanges calls in one behaviour of the tracker
MaxBtcFetches == 4
MaxSweepFetches == 1

\* the instants (minutes) at which the tracker is observed, and how many of
\* them a behaviour goes through
BtcInstants == << 0, 15, 30, 31, 35, 46, 61 >>

MaxBtcInstants == 5

BtcPrices == {100, 110}

\* ------------------------------------------------------- program constants
Variants == {"strategy", "part_000"}

RSI_PERIOD == 14

Undefined == -1

\* null
Null == -2

\* moment().subtract(31, 'minutes')
RetainMinutes == 31

\* moment().subtract(30, 'minutes')
ChangeWindowMinutes == 30

RSI_THRESHOLD_15m(v) == IF v = "strategy" THEN 10 ELSE 60

RSI_THRESHOLD_1m(v) == IF v = "strategy" THEN 30 ELSE 10

CooldownMinutes(v) == IF v = "strategy" THEN 30 ELSE 5

\* ------------------------------------------------------------ calculateRSI
\* A score is null or the exact rational num/den (den > 0).
NullRSI == [null |-> TRUE, num |-> 0, den |-> 1]

RECURSIVE SumGains(_, _, _)
SumGains(prices, i, last) ==
  IF i > last THEN 0
  ELSE LET change == prices[i + 1] - prices[i]
       IN  (IF change > 0 THEN change ELSE 0) + SumGains(prices, i + 1, last)

RECURSIVE SumLosses(_, _, _)
SumLosses(prices, i, last) ==
  IF i > last THEN 0
  ELSE LET change == prices[i + 1] - prices[i]
       IN  (IF change > 0 THEN 0 ELSE 0 - change) + SumLosses(prices, i + 1, last)

\* for (let i = 1; i < period; i++): JS indices 1..period-1, that is the
\* deltas between the 1-based positions (i, i+1) for i = 1..period-1.
LoopLast(period) == period - 1

\* if (prices.length < period) return null;
Enough(len, period) == len >= period

calculateRSI(prices) ==
  IF ~Enough(Len(prices), RSI_PERIOD) THEN NullRSI
  ELSE LET gains  == SumGains(prices, 1, LoopLast(RSI_PERIOD))
           losses == SumLosses(prices, 1, LoopLast(RSI_PERIOD))
       IN  IF losses = 0
           THEN [null |-> FALSE, num |-> 100, den |-> 1]
           \* 100 - 100/(1 + gains/losses) = 100*gains/(gains+losses)
           ELSE [null |-> FALSE, num |-> 100 * gains, den |-> gains + losses]

\* rsi < t and rsi > t as JavaScript evaluates them: null converts to 0.
RsiBelow(r, t) == IF r.null THEN 0 < t ELSE r.num < t * r.den

RsiAbove(r, t) == IF r.null THEN 0 > t ELSE r.num > t * r.den


\* ------------------------------------------------- JavaScript comparisons
\* A relational comparison with undefined (NaN after conversion) is false.
JsLT(a, b) == a # Undefined /\ b # Undefined /\ a < b

JsGE(a, b) == a # Undefined /\ b # Undefined /\ a >= b

\* prices[prices.length - 1]: undefined for an empty array
LastPrice(prices) == IF Len(prices) = 0 THEN Undefined ELSE prices[Len(prices)]

\* (p * 1.011).toFixed(8), p in units of 1e-8: rounded to the nearest unit
SellPriceOf(p) == (p * 1011 + 500) \div 1000

\* (((base - bottom) / base) * 100).toFixed(2) in hundredths of a percent,
\* <<>> for NaN (an operand undefined)
PercentageDrop(base, bottom) ==
  IF base = Undefined \/ bottom = Undefined THEN <<>>
  ELSE LET n == 10000 * (base - bottom)
       IN  IF n >= 0 THEN << (2 * n + base) \div (2 * base) >>
           ELSE << 0 - ((2 * (0 - n) + base) \div (2 * base)) >>

\* ------------------------------------------------------ market snapshots
\* What fetchCandlestickData can return: null (the catch branch) or an
\* array of closes.  FetchFailed stands for null.
FetchFailed == << Undefined >>

Falling(p) == [i \in 1..(RSI_PERIOD + 1) |-> p + (RSI_PERIOD + 1 - i)]

Rising(p) == [i \in 1..(RSI_PERIOD + 1) |-> p - (RSI_PERIOD + 1 - i)]

Short(p) == << p + 1, p >>

\* The pairs (15m closes, 1m closes) a detection sweep is tried with: a
\* failed fetch of either interval, a raise-eligible pair and a pair that is
\* not, at every price, and arrays too short for a score.
Snapshots ==
  {<< FetchFailed, Rising(1000) >>, << Falling(1000), FetchFailed >>}
    \cup {<< Falling(1000), Rising(p) >> : p \in SweepPrices}
    \cup {<< Rising(1000), Rising(p) >> : p \in SweepPrices}
    \cup {<< Short(1000), Rising(1000) >>, << Falling(1000), Short(900) >>,
          << Falling(1000), << >> >>}

\* the latest close of a 1m snapshot, for the target check
Quotes == {FetchFailed, << >>} \cup {Short(p) : p \in Prices}

\* --------------------------------------------------------------- state
VARIABLES
  variant,                \* which source file is running
  clock,                  \* moment(), in minutes
  lastNotificationTimes,  \* symbol -> time of the last new-signal
  sellPrices,             \* symbol -> open signal
  sellKeys,               \* the keys of sellPrices in insertion order
  bottomPrices,           \* symbol -> lowest price
  entryPrices,            \* symbol -> array of entry prices (strategy.js)
  hr,                     \* bag of the handleRSI tasks awaiting sendTelegramMessage
  ct,                     \* bag of the checkTargetAchieved runs in flight
  sentCount,              \* number of sendTelegramMessage calls so far
  closures,               \* positions whose target-achieved edit was issued
  lastSweep,              \* the detection sweep of the latest step: the sample
                          \* it wrote and whether it found the raise condition
  lastEdit,               \* the editTelegramMessage call of the latest step
  lastLog,                \* the buy_signals.csv line of the latest step
  lastError,              \* the Telegram request the latest step saw fail
  rsiIn,                  \* calculateRSI: argument
  rsiOut,                 \* calculateRSI: result
  btcPriceHistory,        \* array of {price, timestamp}, oldest first
  lastBTCPrice,           \* the price of the previous successful fetch
  btcData,                \* what the latest calculateBTCChanges returned
  btcFetches              \* number of calculateBTCChanges calls so far

vars == << variant, clock, lastNotificationTimes, sellPrices, sellKeys,
           bottomPrices, entryPrices, hr, ct, sentCount, closures,
           lastSweep, lastEdit, lastLog, lastError, rsiIn, rsiOut,
           btcPriceHistory, lastBTCPrice, btcData, btcFetches >>

btcVars == << btcPriceHistory, lastBTCPrice, btcData, btcFetches >>

engineVars == << variant, clock, lastNotificationTimes, sellPrices, sellKeys,
                 bottomPrices, entryPrices, hr, ct, sentCount, closures,
                 lastSweep, lastEdit, lastLog, lastError >>

IdleCheck ==
  [pc |-> "idle", todo |-> << >>, symbol |-> "", sellPrice |-> Undefined,
   messageId |-> Undefined, buyTime |-> Undefined, buyPrice |-> Undefined,
   bottomPrice |-> Undefined, percentageDrop |-> << >>]

NoSignal ==
  [sellPrice |-> Undefined, messageId |-> Undefined, buyTime |-> Undefined,
   buyPrice |-> Undefined]

NoSweep ==
  [symbol |-> "", fetched |-> FALSE, logged |-> FALSE, raise |-> FALSE,
   price |-> Undefined]

NoEdit ==
  [kind |-> "", symbol |-> "", messageId |-> Undefined, buyTime |-> Undefined,
   price |-> Undefined]

NoLine ==
  [symbol |-> "", entryPrices |-> << >>, sellPrice |-> Undefined,
   bottomPrice |-> Undefined, percentageDrop |-> << >>, buyTime |-> Undefined]

\* console.error of sendTelegramMessage ("send") or editTelegramMessage
\* ("edit"), with the message the request was about
NoError == [kind |-> "", symbol |-> "", messageId |-> Undefined]

NoCalc == [null |-> TRUE, num |-> Undefined, den |-> 1]

\* a percentage is << >> for null, << hundredths of a percent >> otherwise
NoBtcData == [price |-> Null, change |-> << >>, change30m |-> << >>]

\* find() found nothing
NoSample == [price |-> Undefined, timestamp |-> Undefined]

EngineInit ==
  /\ variant \in Variants
  /\ clock = 0
  /\ lastNotificationTimes = [s \in Symbols |-> Undefined]
  /\ sellPrices = [s \in Symbols |-> NoSignal]
  /\ sellKeys = << >>
  /\ bottomPrices = [s \in Symbols |-> Undefined]
  /\ entryPrices = [s \in Symbols |-> << >>]
  /\ hr = EmptyBag
  /\ ct = EmptyBag
  /\ sentCount = 0
  /\ closures = {}
  /\ lastSweep = NoSweep
  /\ lastEdit = NoEdit
  /\ lastLog = NoLine
  /\ lastError = NoError

Init ==
  /\ EngineInit
  /\ rsiIn = << >>
  /\ rsiOut = NoCalc
  /\ btcPriceHistory = << >>
  /\ lastBTCPrice = Null
  /\ btcData = NoBtcData
  /\ btcFetches = 0

\* ------------------------------------------------------ object helpers
\* The objects lastNotificationTimes, sellPrices and bottomPrices are
\* functions on Symbols; a missing key reads as undefined (NoSignal).
Tracked(sp, symbol) == sp[symbol] # NoSignal

\* insertion order of the keys after obj[key] = value
KeysPut(keys, key) ==
  IF \E n \in 1..Len(keys) : keys[n] = key THEN keys ELSE Append(keys, key)

\* insertion order of the keys after delete obj[key]
KeysDelete(keys, key) == SelectSeq(keys, LAMBDA k : k # key)

\* array.unshift(x)
Unshift(arr, x) == << x >> \o arr

\* array[0]
First(arr) == IF Len(arr) = 0 THEN Undefined ELSE arr[1]

\* Tasks in flight are anonymous: a bag of their local states.  A task
\* that has returned (pc "idle") leaves the bag.
InFlight(t) == IF t.pc = "idle" THEN EmptyBag ELSE SetToBag({t})

Resume(tasks, t, next) == (tasks (-) SetToBag({t})) (+) InFlight(next)

\* ------------------------------------------------------------- the clock
\* The engine reads the clock only to compare an age with the cooldown, so
\* time is sampled at the instants around each multiple of the cooldown N:
\* 0, N-1, N, 2N-1, 2N, ...
NextInstant(v, t) ==
  IF t % CooldownMinutes(v) = 0 THEN t + CooldownMinutes(v) - 1 ELSE t + 1

\* the number of instants up to t
InstantsUpTo(v, t) ==
  1 + 2 * (t \div CooldownMinutes(v))
    + (IF t % CooldownMinutes(v) = 0 THEN 0 ELSE 1)

Tick ==
  /\ InstantsUpTo(variant, NextInstant(variant, clock)) <= MaxInstants
  /\ clock' = NextInstant(variant, clock)
  /\ lastSweep' = NoSweep
  /\ lastEdit' = NoEdit
  /\ lastLog' = NoLine
  /\ lastError' = NoError
  /\ UNCHANGED << variant, lastNotificationTimes, sellPrices, sellKeys,
                  bottomPrices, entryPrices, hr, ct, sentCount, closures,
                  rsiIn, rsiOut, btcVars >>

\* --------------------------------------------------------------- handleRSI
\* if (existingSignal): only strategy.js has this branch
HasExistingSignal(v, signal) == v = "strategy" /\ signal # NoSignal

AveragingDownMutant(currentPrice, sellPrice, entries) ==
  JsLT(currentPrice, sellPrice)

\* currentPrice < existingSignal.sellPrice &&
\*   (entryPrices[symbol].length === 0 || currentPrice < entryPrices[symbol][0])
AveragingDown(currentPrice, sellPrice, entries) ==
  /\ JsLT(currentPrice, sellPrice)
  /\ (Len(entries) = 0 \/ JsLT(currentPrice, First(entries)))

\* rsi15m < RSI_THRESHOLD_15m && rsi1m > RSI_THRESHOLD_1m
RaiseCondition(v, rsi15m, rsi1m) ==
  /\ RsiBelow(rsi15m, RSI_THRESHOLD_15m(v))
  /\ RsiAbove(rsi1m, RSI_THRESHOLD_1m(v))

NotifiedRecentlyMutant(v, lastNotificationTime, currentTime) ==
  /\ lastNotificationTime # Undefined
  /\ currentTime - lastNotificationTime <= CooldownMinutes(v)

\* lastNotificationTime && currentTime.diff(lastNotificationTime, 'minutes') < N
NotifiedRecently(v, lastNotificationTime, currentTime) ==
  /\ lastNotificationTime # Undefined
  /\ currentTime - lastNotificationTime < CooldownMinutes(v)

SweepAbortsMutant(prices15m, prices1m, btc) ==
  prices15m = FetchFailed \/ prices1m = FetchFailed \/ btc.price = Null

\* if (!prices15m || !prices1m) return;   btc, the result of
\* calculateBTCChanges, is not part of the test
SweepAborts(prices15m, prices1m, btc) ==
  prices15m = FetchFailed \/ prices1m = FetchFailed

\* monitorTokens calls handleRSI(symbol).  The task first awaits the two
\* candle fetches and the reference price; it reads no engine state before
\* they have returned, so the step is the synchronous stretch from their
\* return (with the snapshots prices15m, prices1m) to the next await or the
\* return.  After "await editTelegramMessage" the task only returns, so an
\* averaging-down sweep is over when the edit has been issued; a sweep that
\* opens a position stays in flight, awaiting sendTelegramMessage.  btcData
\* is what "await calculateBTCChanges()" returned to the task.
HandleRSIUpTo(limit, symbol, prices15m, prices1m) ==
  LET fetched        == prices15m # FetchFailed /\ prices1m # FetchFailed
      rsi15m         == calculateRSI(prices15m)
      rsi1m          == calculateRSI(prices1m)
      currentPrice   == LastPrice(prices1m)
      existingSignal == sellPrices[symbol]
      raise          == RaiseCondition(variant, rsi15m, rsi1m)
      sweep          == [symbol |-> symbol, fetched |-> fetched,
                         logged |-> TRUE, raise |-> raise,
                         price |-> currentPrice]
  IN
  /\ BagCardinality(hr) < limit
  /\ IF SweepAborts(prices15m, prices1m, btcData)
     THEN \* if (!prices15m || !prices1m) return;
          /\ lastSweep' = [NoSweep EXCEPT !.symbol = symbol,
                                          !.fetched = fetched]
          /\ lastEdit' = NoEdit
          /\ UNCHANGED << lastNotificationTimes, entryPrices, sentCount, hr >>
     ELSE
     \* logRSIAndPrice(symbol, rsi15m, rsi1m, currentPrice)
     /\ lastSweep' = sweep
     /\ IF HasExistingSignal(variant, existingSignal)
        THEN IF AveragingDown(currentPrice, existingSignal.sellPrice,
                              entryPrices[symbol])
             THEN /\ entryPrices' = [entryPrices EXCEPT
                                       ![symbol] = Unshift(@, currentPrice)]
                  /\ lastEdit' = [kind |-> "update", symbol |-> symbol,
                                  messageId |-> existingSignal.messageId,
                                  buyTime |-> existingSignal.buyTime,
                                  price |-> currentPrice]
                  /\ UNCHANGED << lastNotificationTimes, sentCount, hr >>
             ELSE /\ lastEdit' = NoEdit
                  /\ UNCHANGED << lastNotificationTimes, entryPrices,
                                  sentCount, hr >>
        ELSE IF raise /\ ~NotifiedRecently(variant,
                                           lastNotificationTimes[symbol], clock)
             THEN /\ lastNotificationTimes' =
                       [lastNotificationTimes EXCEPT ![symbol] = clock]
                  /\ entryPrices' =
                       IF variant = "strategy"
                       THEN [entryPrices EXCEPT
                               ![symbol] = Unshift(@, currentPrice)]
                       ELSE entryPrices
                  /\ sentCount' = sentCount + 1
                  /\ hr' = hr (+) InFlight(
                              [pc |-> "send", symbol |-> symbol,
                               currentPrice |-> currentPrice,
                               sellPrice |-> SellPriceOf(currentPrice),
                               currentTime |-> clock,
                               sendIx |-> sentCount + 1])
                  /\ lastEdit' = NoEdit
             ELSE /\ lastEdit' = NoEdit
                  /\ UNCHANGED << lastNotificationTimes, entryPrices,
                                  sentCount, hr >>
  /\ lastLog' = NoLine
  /\ lastError' = NoError
  /\ UNCHANGED << variant, clock, sellPrices, sellKeys, bottomPrices, ct,
                  closures, rsiIn, rsiOut, btcVars >>

\* a sweep while fewer than MaxHandlers sweeps await their send
HandleRSI(symbol, prices15m, prices1m) ==
  HandleRSIUpTo(MaxHandlers, symbol, prices15m, prices1m)

ReturnsToCallerMutant(ok) == ok

\* sendTelegramMessage and editTelegramMessage wrap the request in
\* try { ... } catch (error) { console.error(...) }: the call returns to its
\* caller whether or not the request succeeded.
ReturnsToCaller(ok) == TRUE

\* await sendTelegramMessage(...) returns the message id, or undefined when
\* the request failed; the signal is stored.
HandleRSISent(t, delivered) ==
  LET messageId == IF delivered THEN t.sendIx ELSE Undefined
  IN
  /\ BagIn(t, hr)
  /\ hr' = hr (-) SetToBag({t})
  /\ lastError' = IF delivered THEN NoError
                  ELSE [kind |-> "send", symbol |-> t.symbol,
                        messageId |-> Undefined]
  /\ IF ReturnsToCaller(delivered)
     THEN /\ sellPrices' = [sellPrices EXCEPT ![t.symbol] =
                              [sellPrice |-> t.sellPrice,
                               messageId |-> messageId,
                               buyTime |-> t.currentTime,
                               buyPrice |-> IF variant = "strategy"
                                            THEN Undefined
                                            ELSE t.currentPrice]]
          /\ sellKeys' = KeysPut(sellKeys, t.symbol)
          /\ bottomPrices' = [bottomPrices EXCEPT ![t.symbol] = t.currentPrice]
     ELSE UNCHANGED << sellPrices, sellKeys, bottomPrices >>
  /\ lastSweep' = NoSweep
  /\ lastEdit' = NoEdit
  /\ lastLog' = NoLine
  /\ UNCHANGED << variant, clock, lastNotificationTimes, entryPrices, ct,
                  sentCount, closures, rsiIn, rsiOut, btcVars >>

\* ----------------------------------------------------- checkTargetAchieved
\* for (const symbol in sellPrices): the keys are taken in insertion order
\* when the loop starts; a key deleted before its turn is not visited.  The
\* loop head destructures sellPrices[symbol] and awaits the candle fetch.
RECURSIVE NextIteration(_, _)
NextIteration(todo, sp) ==
  IF Len(todo) = 0 THEN IdleCheck
  ELSE IF Tracked(sp, Head(todo))
       THEN [IdleCheck EXCEPT !.pc = "fetch",
                              !.todo = Tail(todo),
                              !.symbol = Head(todo),
                              !.sellPrice = sp[Head(todo)].sellPrice,
                              !.messageId = sp[Head(todo)].messageId,
                              !.buyTime = sp[Head(todo)].buyTime,
                              !.buyPrice = sp[Head(todo)].buyPrice]
       ELSE NextIteration(Tail(todo), sp)

\* The interval timer fires checkTargetAchieved.  A run over an empty
\* sellPrices returns at once and is not a step.
StartCheck(limit) ==
  /\ BagCardinality(ct) < limit
  /\ Len(sellKeys) > 0
  /\ ct' = ct (+) InFlight(NextIteration(sellKeys, sellPrices))
  /\ lastSweep' = NoSweep
  /\ lastEdit' = NoEdit
  /\ lastLog' = NoLine
  /\ lastError' = NoError
  /\ UNCHANGED << variant, clock, lastNotificationTimes, sellPrices, sellKeys,
                  bottomPrices, entryPrices, hr, sentCount, closures,
                  rsiIn, rsiOut, btcVars >>

\* part_000: if (currentPrice < bottomPrices[symbol]) bottomPrices[symbol] = currentPrice
\* strategy.js has no such statement.
UpdateBottomMutant(v, bottom, currentPrice) ==
  IF v = "part_000" /\ JsLT(bottom, currentPrice) THEN currentPrice ELSE bottom

UpdateBottom(v, bottom, currentPrice) ==
  IF v = "part_000" /\ JsLT(currentPrice, bottom) THEN currentPrice ELSE bottom

\* the baseline of the percentage drop: entryPrices[0] of the destructured
\* array (strategy.js) or buyPrice (part_000)
DropBaseline(v, entries, buyPrice) ==
  IF v = "strategy" THEN First(entries) ELSE buyPrice

\* if (currentPrice >= sellPrice)
TargetReached(currentPrice, sellPrice) == JsGE(currentPrice, sellPrice)

\* The stretch of one loop iteration from the return of the fetch to the
\* await of the target-achieved edit, or to the head of the next iteration.
CheckFetched(c, prices) ==
  LET currentPrice == LastPrice(prices)
      bottom       == UpdateBottom(variant, bottomPrices[c.symbol], currentPrice)
  IN
  /\ BagIn(c, ct)
  /\ c.pc = "fetch"
  /\ IF prices = FetchFailed
     THEN \* if (!prices) continue;
          /\ ct' = Resume(ct, c, NextIteration(c.todo, sellPrices))
          /\ lastEdit' = NoEdit
          /\ UNCHANGED << bottomPrices, closures >>
     ELSE
     /\ bottomPrices' = [bottomPrices EXCEPT ![c.symbol] = bottom]
     /\ IF TargetReached(currentPrice, c.sellPrice)
        THEN /\ lastEdit' = [kind |-> "target", symbol |-> c.symbol,
                             messageId |-> c.messageId, buyTime |-> c.buyTime,
                             price |-> currentPrice]
             /\ closures' = closures
                              \cup {[symbol |-> c.symbol, buyTime |-> c.buyTime]}
             /\ ct' = Resume(ct, c,
                         [c EXCEPT !.pc = "edit",
                                   !.bottomPrice = bottom,
                                   !.percentageDrop =
                                      PercentageDrop(
                                        DropBaseline(variant,
                                                     entryPrices[c.symbol],
                                                     c.buyPrice),
                                        bottom)])
        ELSE /\ ct' = Resume(ct, c, NextIteration(c.todo, sellPrices))
             /\ lastEdit' = NoEdit
             /\ UNCHANGED closures
  /\ lastSweep' = NoSweep
  /\ lastLog' = NoLine
  /\ lastError' = NoError
  /\ UNCHANGED << variant, clock, lastNotificationTimes, sellPrices, sellKeys,
                  entryPrices, hr, sentCount, rsiIn, rsiOut, btcVars >>

\* logBuySignal: strategy.js appends a line to buy_signals.csv; in part_000
\* the appendFile call is commented out.
LogBuySignal(v, line) == IF v = "strategy" THEN line ELSE NoLine

\* await editTelegramMessage(...) returns; the signal is logged and deleted.
\* "delete entryPrices[symbol]" names the destructured array, not the
\* module-level object, so the module-level entryPrices[symbol] stays.
CheckEdited(c, edited) ==
  LET line == [symbol |-> c.symbol, entryPrices |-> entryPrices[c.symbol],
               sellPrice |-> c.sellPrice, bottomPrice |-> c.bottomPrice,
               percentageDrop |-> c.percentageDrop, buyTime |-> c.buyTime]
      sp   == [sellPrices EXCEPT ![c.symbol] = NoSignal]
  IN
  /\ BagIn(c, ct)
  /\ c.pc = "edit"
  /\ lastError' = IF edited THEN NoError
                  ELSE [kind |-> "edit", symbol |-> c.symbol,
                        messageId |-> c.messageId]
  /\ IF ReturnsToCaller(edited)
     THEN /\ lastLog' = LogBuySignal(variant, line)
          /\ sellPrices' = sp
          /\ sellKeys' = KeysDelete(sellKeys, c.symbol)
          /\ bottomPrices' = [bottomPrices EXCEPT ![c.symbol] = Undefined]
          /\ ct' = Resume(ct, c, NextIteration(c.todo, sp))
     ELSE /\ lastLog' = NoLine
          /\ ct' = ct (-) SetToBag({c})
          /\ UNCHANGED << sellPrices, sellKeys, bottomPrices >>
  /\ lastSweep' = NoSweep
  /\ lastEdit' = NoEdit
  /\ UNCHANGED << variant, clock, lastNotificationTimes, entryPrices, hr,
                  sentCount, closures, rsiIn, rsiOut, btcVars >>

\* ------------------------------------------------------------ calculateRSI
\* The pure function on its own: build an argument, then apply it.
RsiAppend(p) ==
  /\ rsiOut = NoCalc
  /\ Len(rsiIn) < MaxRsiLen
  /\ rsiIn' = Append(rsiIn, p)
  /\ UNCHANGED << engineVars, rsiOut, btcVars >>

RsiCalc ==
  /\ rsiOut = NoCalc
  /\ rsiOut' = calculateRSI(rsiIn)
  /\ UNCHANGED << engineVars, rsiIn, btcVars >>

\* ------------------------------------------- fetchBTCPrice, calculateBTCChanges
\* ((current - old) / old * 100).toFixed(2), in hundredths of a percent
PriceChange(current, old) ==
  LET n == 10000 * (current - old)
  IN  IF n >= 0 THEN << (2 * n + old) \div (2 * old) >>
      ELSE << 0 - ((2 * (0 - n) + old) \div (2 * old)) >>

TooOldMutant(timestamp, now) == timestamp <= now - RetainMinutes

\* btcPriceHistory[0].timestamp.isBefore(thirtyOneMinutesAgo)
TooOld(timestamp, now) == timestamp < now - RetainMinutes

\* while (btcPriceHistory.length > 0 && ...) btcPriceHistory.shift();
RECURSIVE Trim(_, _)
Trim(history, now) ==
  IF Len(history) > 0 /\ TooOld(history[1].timestamp, now)
  THEN Trim(Tail(history), now)
  ELSE history

OldEnoughMutant(timestamp, now) == timestamp < now - ChangeWindowMinutes

\* entry.timestamp.isSameOrBefore(thirtyMinutesAgo)
OldEnough(timestamp, now) == timestamp <= now - ChangeWindowMinutes

\* btcPriceHistory.find(...): the first entry that matches, or undefined
RECURSIVE Find(_, _)
Find(history, now) ==
  IF Len(history) = 0 THEN NoSample
  ELSE IF OldEnough(history[1].timestamp, now) THEN history[1]
       ELSE Find(Tail(history), now)

\* One call of calculateBTCChanges, from the return of the price request to
\* the return of the function.  response is the price, or Null when the
\* request failed (fetchBTCPrice's catch branch returns null before it has
\* pushed or trimmed anything).
CalculateBTCChanges(response) ==
  LET history  == Trim(Append(btcPriceHistory,
                              [price |-> response, timestamp |-> clock]),
                       clock)
      oldPrice == Find(history, clock)
  IN
  /\ btcFetches < MaxBtcFetches
  /\ btcFetches' = btcFetches + 1
  /\ IF response = Null
     THEN \* if (!currentBTCPrice) return { price: null, change: null, change30m: null }
          /\ btcData' = NoBtcData
          /\ UNCHANGED << btcPriceHistory, lastBTCPrice >>
     ELSE /\ btcPriceHistory' = history
          /\ btcData' =
               [price     |-> response,
                change    |-> IF lastBTCPrice # Null
                              THEN PriceChange(response, lastBTCPrice)
                              ELSE << >>,
                change30m |-> IF Len(history) > 0 /\ oldPrice # NoSample
                              THEN PriceChange(response, oldPrice.price)
                              ELSE << >>]
          /\ lastBTCPrice' = response
  /\ UNCHANGED << engineVars, rsiIn, rsiOut >>

\* the position of the instant t in BtcInstants
BtcInstantIx(t) == CHOOSE k \in 1..Len(BtcInstants) : BtcInstants[k] = t

\* time passes between two calls
BtcTick ==
  /\ BtcInstantIx(clock) < MaxBtcInstants
  /\ clock' = BtcInstants[BtcInstantIx(clock) + 1]
  /\ UNCHANGED << variant, lastNotificationTimes, sellPrices, sellKeys,
                  bottomPrices, entryPrices, hr, ct, sentCount, closures,
                  lastSweep, lastEdit, lastLog, lastError, rsiIn, rsiOut,
                  btcVars >>

\* ------------------------------------------------------- specifications
Next ==
  \/ Tick
  \/ \E symbol \in Symbols, snap \in Snapshots :
       HandleRSI(symbol, snap[1], snap[2])
  \/ \E t \in BagToSet(hr), delivered \in BOOLEAN : HandleRSISent(t, delivered)
  \/ StartCheck(MaxChecks)
  \/ \E c \in BagToSet(ct), prices \in Quotes : CheckFetched(c, prices)
  \/ \E c \in BagToSet(ct), edited \in BOOLEAN : CheckEdited(c, edited)

Spec == Init /\ [][Next]_vars

\* setInterval starts a target-check run while an earlier one is still
\* awaiting its requests.
NextOverlapCheck ==
  \/ Tick
  \/ \E symbol \in Symbols, snap \in Snapshots :
       HandleRSI(symbol, snap[1], snap[2])
  \/ \E t \in BagToSet(hr), delivered \in BOOLEAN : HandleRSISent(t, delivered)
  \/ StartCheck(MaxChecks + 1)
  \/ \E c \in BagToSet(ct), prices \in Quotes : CheckFetched(c, prices)
  \/ \E c \in BagToSet(ct), edited \in BOOLEAN : CheckEdited(c, edited)

SpecOverlapCheck == Init /\ [][NextOverlapCheck]_vars

\* setInterval starts monitorTokens, and with it a sweep of every symbol,
\* while a sweep of an earlier run is still awaiting its send.
NextOverlapSweep ==
  \/ Tick
  \/ \E symbol \in Symbols, snap \in Snapshots :
       HandleRSIUpTo(MaxHandlers + 1, symbol, snap[1], snap[2])
  \/ \E t \in BagToSet(hr), delivered \in BOOLEAN : HandleRSISent(t, delivered)
  \/ StartCheck(MaxChecks)
  \/ \E c \in BagToSet(ct), prices \in Quotes : CheckFetched(c, prices)
  \/ \E c \in BagToSet(ct), edited \in BOOLEAN : CheckEdited(c, edited)

SpecOverlapSweep == Init /\ [][NextOverlapSweep]_vars

NextRSI ==
  \/ \E p \in RsiPrices : RsiAppend(p)
  \/ RsiCalc

SpecRSI == Init /\ [][NextRSI]_vars

\* the reference-asset tracker on its own
NextBTC ==
  \/ BtcTick
  \/ \E response \in BtcPrices \cup {Null} : CalculateBTCChanges(response)

SpecBTC == Init /\ [][NextBTC]_vars

\* The engine while the price stays at or above the sell targets: every
\* quote a target check obtains is at or above the target the run is testing,
\* or the request fails.
AtOrAboveTarget(c, prices) ==
  prices = FetchFailed \/ (Len(prices) > 0 /\ LastPrice(prices) >= c.sellPrice)

\* a target-check run obtains its quote
TargetCheckFetches ==
  \E c \in BagToSet(ct), prices \in Quotes :
    /\ prices # FetchFailed
    /\ AtOrAboveTarget(c, prices)
    /\ CheckFetched(c, prices)

\* a target-check run resumes after its edit
TargetCheckResumes ==
  \E c \in BagToSet(ct), edited \in BOOLEAN : CheckEdited(c, edited)

\* monitorTokens sweeps a symbol
SweepResumes ==
  \E symbol \in Symbols, snap \in Snapshots :
    HandleRSI(symbol, snap[1], snap[2])

\* a sweep resumes after its send
SendReturns ==
  \E t \in BagToSet(hr), delivered \in BOOLEAN : HandleRSISent(t, delivered)

NextFair ==
  \/ Tick
  \/ SweepResumes
  \/ SendReturns
  \/ StartCheck(MaxChecks)
  \/ \E c \in BagToSet(ct), prices \in Quotes :
       AtOrAboveTarget(c, prices) /\ CheckFetched(c, prices)
  \/ TargetCheckResumes

\* setInterval fires monitorTokens and checkTargetAchieved every 20 s for as
\* long as the process runs, a request that is awaited returns, and the price
\* request does not fail forever.
SpecFair ==
  /\ Init /\ [][NextFair]_vars
  /\ WF_vars(SweepResumes)
  /\ WF_vars(SendReturns)
  /\ WF_vars(StartCheck(MaxChecks))
  /\ SF_vars(TargetCheckFetches)
  /\ WF_vars(TargetCheckResumes)

\* Detection sweeps together with the reference-price call each of them
\* awaits before it goes on (handleRSI line 154).
NextSweep ==
  \/ Tick
  \/ \E response \in BtcPrices \cup {Null} :
       btcFetches < MaxSweepFetches /\ CalculateBTCChanges(response)
  \/ \E symbol \in Symbols, snap \in Snapshots :
       HandleRSI(symbol, snap[1], snap[2])
  \/ \E t \in BagToSet(hr), delivered \in BOOLEAN : HandleRSISent(t, delivered)

SpecSweep == Init /\ [][NextSweep]_vars

\* ------------------------------------------------------------ properties
\* the Position state of a symbol: entries, sell target, opening time,
\* notification handle, bottom price and cooldown timestamp
PositionOf(sp, ep, bp, lnt, s) == << sp[s], ep[s], bp[s], lnt[s] >>

\* the step is the detection sweep of symbol s
SweptNow(s) == lastSweep'.symbol = s

\* the step resumes a target-check run that was awaiting its edit for s
ClosingRunResumed(s) ==
  \E c \in BagToSet(ct) :
    /\ c.pc = "edit" /\ c.symbol = s
    /\ CopiesIn(c, ct') < CopiesIn(c, ct)

\* a closing-price sequence that is unavailable: the fetch failed, or the
\* points are too few for a score
Unavailable(prices) == prices = FetchFailed \/ calculateRSI(prices).null

\* C1: the sell target of a position never changes between the moment the
\* position is opened and the moment it is closed.
C1_SellTargetFixed ==
  [][\A s \in Symbols :
       Tracked(sellPrices, s) /\ Tracked(sellPrices', s)
         => sellPrices'[s].sellPrice = sellPrices[s].sellPrice]_vars

\* C2: for every symbol with an Active position, the bottom price is at most
\* the minimum of the position's entry prices.
C2_BottomBelowEntries ==
  \A s \in Symbols :
    variant = "strategy" /\ Tracked(sellPrices, s)
      => \A k \in 1..Len(entryPrices[s]) : bottomPrices[s] <= entryPrices[s][k]

\* C3: an Active position is removed exactly by a target check that saw a
\* price at or above the sell target; no other step removes or replaces it,
\* and every such observation leads to the removal.
C3_ClosedOnlyByTarget ==
  [][\A s \in Symbols :
       /\ Tracked(sellPrices, s) /\ sellPrices'[s] # sellPrices[s]
            => sellPrices'[s] = NoSignal /\ ClosingRunResumed(s)
       /\ ClosingRunResumed(s) => sellPrices'[s] = NoSignal]_vars

\* C4 as stated: within the cooldown a raise-eligible sweep sends no
\* new-signal notification, and after the cooldown has expired every
\* raise-eligible sweep sends one.
C4_SecondAfterCooldown ==
  [][\A s \in Symbols :
       SweptNow(s) /\ lastSweep'.raise
         => LET last    == lastNotificationTimes[s]
                expired == last = Undefined
                             \/ clock - last >= CooldownMinutes(variant)
            IN  IF expired
                THEN sentCount' = sentCount + 1
                ELSE sentCount' = sentCount]_vars

\* C4 amended: after the cooldown has expired a raise-eligible sweep sends a
\* new-signal notification unless strategy.js still tracks an open position
\* of the symbol; within the cooldown it sends none.
C4_CooldownGate ==
  [][\A s \in Symbols :
       SweptNow(s) /\ lastSweep'.raise
         => LET last    == lastNotificationTimes[s]
                expired == last = Undefined
                             \/ clock - last >= CooldownMinutes(variant)
                guarded == variant = "strategy" /\ Tracked(sellPrices, s)
            IN  IF expired /\ ~guarded
                THEN /\ sentCount' = sentCount + 1
                     /\ lastNotificationTimes'[s] = clock
                ELSE /\ sentCount' = sentCount
                     /\ lastNotificationTimes' = lastNotificationTimes]_vars

\* two notifications, a cooldown apart, have been sent, and the
\* raise-eligible sweep of the latest step, within the cooldown of the
\* second, sent none
C4_Witness ==
  \E s \in Symbols :
    /\ sentCount = 2
    /\ lastSweep.symbol = s /\ lastSweep.raise
    /\ clock - lastNotificationTimes[s] < CooldownMinutes(variant)
    /\ lastNotificationTimes[s] >= CooldownMinutes(variant)
    /\ hr = EmptyBag

\* C5: whenever a detection sweep opens a position, the position has the
\* single entry currentPrice, sell target currentPrice x 1.011 (8 decimals)
\* and bottom price currentPrice.
C5_OpenStartsFresh ==
  [][\A s \in Symbols :
       variant = "strategy" /\ ~Tracked(sellPrices, s) /\ Tracked(sellPrices', s)
         => \E t \in BagToSet(hr) :
              /\ t.symbol = s
              /\ entryPrices'[s] = << t.currentPrice >>
              /\ sellPrices'[s].sellPrice = (t.currentPrice * 1011 + 500) \div 1000
              /\ bottomPrices'[s] = t.currentPrice]_vars

\* C6: for a symbol with an Active position, a detection sweep of strategy.js
\* prepends currentPrice to the entries if and only if both snapshots arrived
\* and currentPrice is below the sell target and below the latest entry;
\* otherwise it leaves the Position state as it was.
C6_AveragingDownOnly ==
  [][\A s \in Symbols :
       SweptNow(s) /\ variant = "strategy" /\ Tracked(sellPrices, s)
         => LET cp == lastSweep'.price
            IN  IF /\ lastSweep'.logged
                   /\ cp # Undefined
                   /\ cp < sellPrices[s].sellPrice
                   /\ Len(entryPrices[s]) > 0
                   /\ cp < entryPrices[s][1]
                THEN /\ entryPrices'[s] = << cp >> \o entryPrices[s]
                     /\ sellPrices'[s] = sellPrices[s]
                     /\ bottomPrices'[s] = bottomPrices[s]
                     /\ lastNotificationTimes'[s] = lastNotificationTimes[s]
                ELSE PositionOf(sellPrices', entryPrices', bottomPrices',
                                lastNotificationTimes', s)
                       = PositionOf(sellPrices, entryPrices, bottomPrices,
                                    lastNotificationTimes, s)]_vars

\* the sweep of the latest step added an averaging-down entry to an open
\* position and issued the signal update
C6_Witness ==
  \E s \in Symbols :
    /\ variant = "strategy"
    /\ lastSweep.symbol = s
    /\ lastEdit.kind = "update" /\ lastEdit.symbol = s
    /\ Tracked(sellPrices, s)
    /\ Len(entryPrices[s]) >= 2
    /\ entryPrices[s][1] = lastSweep.price
    /\ entryPrices[s][1] < entryPrices[s][2]
    /\ entryPrices[s][1] < sellPrices[s].sellPrice

\* C7: while a symbol's position is Active, no detection sweep sends a
\* new-signal notification for the symbol.
C7_NoSecondPosition ==
  [][\A s \in Symbols :
       Tracked(sellPrices, s) /\ SweptNow(s) => sentCount' = sentCount]_vars

\* C8: a detection sweep with a closing-price sequence that is unavailable
\* (fetch failed, or too few points for a score) writes no indicator sample
\* and changes no Position state.
C8_UnavailableSkipped ==
  [][\A s \in Symbols, snap \in Snapshots :
       /\ SweptNow(s)
       /\ Unavailable(snap[1]) \/ Unavailable(snap[2])
       /\ HandleRSI(s, snap[1], snap[2])
       => /\ ~lastSweep'.logged
          /\ sentCount' = sentCount
          /\ entryPrices' = entryPrices
          /\ lastNotificationTimes' = lastNotificationTimes]_vars

\* C9: calculateRSI yields null for every sequence shorter than period+1.
C9_ShortIsNull ==
  rsiOut # NoCalc /\ Len(rsiIn) < RSI_PERIOD + 1 => rsiOut.null

\* C10: each opened position (symbol, opening time) gets at most one
\* target-achieved edit, however target-check runs overlap.
C10_ClosedOnce ==
  [][\A s \in Symbols :
       lastEdit'.kind = "target" /\ lastEdit'.symbol = s
         => [symbol |-> s, buyTime |-> lastEdit'.buyTime] \notin closures]_vars

\* the step is a calculateBTCChanges call that obtained a price
BtcFetched == btcFetches' = btcFetches + 1 /\ btcData'.price # Null

\* the ages, at the clock, of the samples of a buffer
AgesOf(history) == [k \in 1..Len(history) |-> clock - history[k].timestamp]

\* the positions of the samples aged from 30 to 31 minutes
InWindow(history) ==
  {k \in 1..Len(history) :
     /\ clock - history[k].timestamp >= 30
     /\ clock - history[k].timestamp <= 31}

\* C11 as stated: with samples aged 35, 20 and 5 minutes in the buffer, a
\* fetch computes the 30-minute change against the 35-minute sample.
C11_SelectsAged35 ==
  [][BtcFetched /\ AgesOf(btcPriceHistory) = << 35, 20, 5 >>
       => btcData'.change30m
            = PriceChange(btcData'.price, btcPriceHistory[1].price)]_vars

\* C11 amended: a fetch computes the 30-minute change against the oldest
\* sample aged from 30 to 31 minutes, and yields none when there is no such
\* sample; an older sample (the 35-minute one) has been evicted before the
\* search, a younger one (the 20-minute one) is never selected.
C11_OldestInWindow ==
  [][BtcFetched
       => LET window == InWindow(btcPriceHistory)
          IN  IF window = {}
              THEN btcData'.change30m = << >>
              ELSE LET k == CHOOSE m \in window : \A n \in window : m <= n
                   IN  btcData'.change30m
                         = PriceChange(btcData'.price,
                                       btcPriceHistory[k].price)]_vars

\* the fetch of the scenario has happened: of the samples aged 35, 20 and 5
\* minutes the first is gone, and no 30-minute change was computed
C11_Witness ==
  /\ btcData.price # Null
  /\ btcData.change30m = << >>
  /\ AgesOf(btcPriceHistory) = << 20, 5, 0 >>
  /\ btcFetches = 4

C12_FailureDoesNotBlock ==
  [][/\ lastError'.kind = "send"
          => \E t \in BagToSet(hr) :
               /\ CopiesIn(t, hr') < CopiesIn(t, hr)
               /\ t.symbol = lastError'.symbol
               /\ Tracked(sellPrices', t.symbol)
               /\ sellPrices'[t.symbol].sellPrice = t.sellPrice
               /\ sellPrices'[t.symbol].buyTime = t.currentTime
               /\ sellPrices'[t.symbol].messageId = Undefined
               /\ bottomPrices'[t.symbol] = t.currentPrice
     /\ lastError'.kind = "edit"
          => /\ ClosingRunResumed(lastError'.symbol)
             /\ ~Tracked(sellPrices', lastError'.symbol)
             /\ bottomPrices'[lastError'.symbol] = Undefined
             /\ variant = "strategy" => lastLog'.symbol = lastError'.symbol]_vars

\* a position whose notification was never delivered has been closed by a
\* target check whose edit failed too
C12_Witness ==
  \E s \in Symbols :
    /\ lastError = [kind |-> "edit", symbol |-> s, messageId |-> Undefined]
    /\ ~Tracked(sellPrices, s)
    /\ \E x \in closures : x.symbol = s

\* the smaller of two prices
MinPrice(a, b) == IF a < b THEN a ELSE b

\* C13: every target check that observes a price sets the bottom price of
\* the position to the minimum of the bottom price and the observed price.
C13_BottomFollowsPrice ==
  [][\A c \in BagToSet(ct), prices \in Quotes :
       /\ prices # FetchFailed
       /\ LastPrice(prices) # Undefined
       /\ Tracked(sellPrices, c.symbol)
       /\ bottomPrices[c.symbol] # Undefined
       /\ CheckFetched(c, prices)
       => bottomPrices'[c.symbol]
            = MinPrice(bottomPrices[c.symbol], LastPrice(prices))]_vars

\* the position of s is Active: it is tracked, or the sweep that opens it is
\* awaiting its notification
Active(s) ==
  \/ Tracked(sellPrices, s)
  \/ \E t \in BagToSet(hr) : t.symbol = s

\* C14: the entry prices of a symbol are non-empty if and only if its
\* position is Active; the target-achieved branch removes them with the
\* position.
C14_EntriesIffActive ==
  \A s \in Symbols :
    variant = "strategy" => (Len(entryPrices[s]) > 0 <=> Active(s))

\* C15: while a position is Active its entry prices are non-empty and the
\* first of them, the most recent entry, is the lowest.
C15_FirstEntryLowest ==
  \A s \in Symbols :
    variant = "strategy" /\ Tracked(sellPrices, s)
      => /\ Len(entryPrices[s]) > 0
         /\ \A k \in 1..Len(entryPrices[s]) :
              entryPrices[s][1] <= entryPrices[s][k]

\* C16: for a sequence of at least period+1 closes the score is computed
\* from the gains and losses of the first period (14) deltas: 100 when there
\* is no loss among them, 100*gains/(gains+losses) otherwise.
C16_FirstPeriodDeltas ==
  rsiOut # NoCalc /\ Len(rsiIn) >= RSI_PERIOD + 1
    => LET gains  == SumGains(rsiIn, 1, 14)
           losses == SumLosses(rsiIn, 1, 14)
       IN  /\ ~rsiOut.null
           /\ IF losses = 0
              THEN rsiOut.num = 100 * rsiOut.den
              ELSE rsiOut.num * (gains + losses) = 100 * gains * rsiOut.den

SweptAfterFailedFetch(s) ==
  /\ SweptNow(s)
  /\ UNCHANGED << btcVars, clock >>
  /\ btcFetches > 0
  /\ btcData = NoBtcData

Removed(s) ==
  /\ ~Tracked(sellPrices, s)
  /\ bottomPrices[s] = Undefined
  /\ Len(entryPrices[s]) = 0

\* C20: with the target check fired again and again and the price at or
\* above the sell target, an Active position is eventually closed and its
\* state (signal, bottom price, entry prices) removed; a cycle whose price
\* request fails only postpones this.
C20_EventuallyRemoved ==
  \A s \in Symbols : Tracked(sellPrices, s) ~> Removed(s)

\* the part of the position state the target-achieved branch does delete
SignalEventuallyDeleted ==
  \A s \in Symbols :
    Tracked(sellPrices, s)
      ~> (~Tracked(sellPrices, s) /\ bottomPrices[s] = Undefined)

\* a target-check cycle whose price request failed changes no position state
FailedCheckChangesNothing ==
  [][\A c \in BagToSet(ct) :
       CheckFetched(c, FetchFailed)
         => /\ sellPrices' = sellPrices
            /\ bottomPrices' = bottomPrices
            /\ entryPrices' = entryPrices
            /\ lastNotificationTimes' = lastNotificationTimes]_vars

\* the target-achieved edit of the position of s that is now tracked has
\* been issued
TargetEditIssued(s) ==
  /\ Tracked(sellPrices, s)
  /\ [symbol |-> s, buyTime |-> sellPrices[s].buyTime] \in closures

\* C21: once the target-achieved edit of a position has been issued, no
\* detection sweep that overlaps the target check issues an entry-update
\* edit for that position or adds an entry to it.
C21_NoUpdateAfterTarget ==
  [][\A s \in Symbols :
       TargetEditIssued(s)
         => /\ ~(lastEdit'.kind = "update" /\ lastEdit'.symbol = s)
            /\ entryPrices'[s] = entryPrices[s]]_vars

\* a sweep of s that raised a signal is awaiting its send
SendPending(s) == \E t \in BagToSet(hr) : t.symbol = s

\* C22: a detection sweep that overlaps a sweep of the same symbol still
\* awaiting its new-signal send raises no second notification and records
\* no second notification time, and the position the pending sweep opens has
\* a single entry.
C22_OneSignalOneEntry ==
  [][\A s \in Symbols :
       /\ SendPending(s) /\ SweptNow(s)
            => /\ sentCount' = sentCount
               /\ lastNotificationTimes'[s] = lastNotificationTimes[s]
               /\ entryPrices'[s] = entryPrices[s]
       /\ \A t \in BagToSet(hr) :
            /\ t.symbol = s
            /\ CopiesIn(t, hr') < CopiesIn(t, hr)
            /\ Tracked(sellPrices', s)
            /\ variant = "strategy"
            => Len(entryPrices'[s]) = 1]_vars

\* the part of C22 the cooldown gives: while a send is pending and the
\* cooldown of its notification has not elapsed, an overlapping sweep opens
\* nothing
OverlapWithinCooldownBlocked ==
  [][\A s \in Symbols :
       /\ SendPending(s) /\ SweptNow(s)
       /\ ~HasExistingSignal(variant, sellPrices[s])
       /\ NotifiedRecently(variant, lastNotificationTimes[s], clock)
       => /\ sentCount' = sentCount
          /\ lastNotificationTimes'[s] = lastNotificationTimes[s]
          /\ entryPrices'[s] = entryPrices[s]]_vars

====
